---- MODULE Spec2Model ----
(***************************************************************************)
(* State-machine model of the ToknTalk backend canister                    *)
(* (src/src/backend/src/lib.rs): the thread-local stores, the update       *)
(* handlers that mutate them and the query handlers that rank them.        *)
(*                                                                         *)
(* One action per update handler: the platform runs one call to            *)
(* completion before the next, so a handler is one atomic step.  Query     *)
(* handlers are operators over the current state.  A Rust HashMap has no   *)
(* defined iteration order, so every query that iterates a map takes the   *)
(* iteration order as an argument and the properties quantify over all of  *)
(* them.  SpecQueries also makes each query call a step: the maps then     *)
(* iterate in the order the state holds, which any change of a store may   *)
(* replace by another.                                                     *)
(***************************************************************************)
EXTENDS Integers, Sequences, FiniteSets, TLC

\* ------------------------------------------------------------------ bounds

MaxPosts == 2
MaxComments == 1
MaxNotifications == 2
MaxTime == 2
MaxLimit == 2
MaxMessages == 1
MaxTimelinePosts == 4
MaxTimelineTime == 3
MaxThreadMessages == 3
MaxTodos == 3
MaxCounter == 3

\* Weights the handlers feed to update_interaction_graph and the follow bonus
\* of the feed ranker.
LikeWeight == 1
CommentWeight == 2
FollowWeight == 5
FollowBonus == 10
MutualBonus == 10

\* Principal values; the integer order stands for Principal's Ord.  Each
\* specification lets a subset of them call.
Principals == {1, 2, 3, 4}
ThreePrincipals == {1, 2, 3}
TwoPrincipals == {1, 2}
OnePrincipal == {1}
NoPrincipal == 0

\* Words a post content is made of; a word is its sequence of characters.
HashA == <<"#", "a">>
HashB == <<"#", "b">>
Plain == <<"h", "i">>
ResharedWord == <<"R", "e", "s", "h", "a", "r", "e", "d", ":">>

\* Post contents the callers submit (already split at whitespace).
Contents == { <<HashA, Plain, HashA>>, <<HashB>> }

\* Post contents of the timeline specification: one hashtag each, or both.
TimelineContents == { <<HashA>>, <<HashB>>, <<HashA, Plain, HashB>> }

\* Comment and user name texts carry no behaviour.
CommentTexts == {"nice"}
TodoTexts == {"todo"}
Usernames == {"user"}

\* ------------------------------------------------------------------- state

VARIABLES
    POSTS,                \* HashMap<u64, Post>
    COMMENTS,             \* HashMap<u64, Comment>
    PROFILES,             \* HashMap<Principal, UserProfile>
    FOLLOWS,              \* HashMap<Principal, Vec<Principal>>
    NOTIFICATIONS,        \* HashMap<u64, Notification>
    MESSAGES,             \* HashMap<u64, Message>
    CHAT_THREADS,         \* HashMap<String, ChatThread>
    TRENDING_TOPICS,      \* HashMap<String, TrendingTopic>
    TODOS,                \* Vec<Todo>
    COUNTER,
    POST_COUNTER,
    COMMENT_COUNTER,
    NOTIFICATION_COUNTER,
    MESSAGE_COUNTER,
    INTERACTION_GRAPH,    \* HashMap<Principal, HashMap<Principal, u64>>
    CONTENT_AFFINITY,     \* HashMap<Principal, HashMap<String, u64>>
    clock,                \* what ic_cdk::api::time() returns
    calls,                \* history: successful calls per (kind, actor, target)
    iteration,            \* the order in which each HashMap iterates now
    reply                 \* the last query call and what it returned

stores == << POSTS, COMMENTS, PROFILES, FOLLOWS, NOTIFICATIONS, MESSAGES,
             CHAT_THREADS, TRENDING_TOPICS, TODOS, INTERACTION_GRAPH,
             CONTENT_AFFINITY >>

counters == << COUNTER, POST_COUNTER, COMMENT_COUNTER, NOTIFICATION_COUNTER,
               MESSAGE_COUNTER >>

vars == << stores, counters, clock, calls >>

\* What a caller of the query handlers observes
observer == << iteration, reply >>

\* No query has been answered since the stores last changed
NoReply == [call |-> <<"none", 0, 0>>, times |-> 0, result |-> << >>]

\* ----------------------------------------------------------------- helpers

EmptyMap == << >>

\* HashMap::insert(k, v)
Put(m, k, v) == [x \in (DOMAIN m) \cup {k} |-> IF x = k THEN v ELSE m[x]]

\* Vec::contains
Contains(s, x) == \E i \in 1..Len(s) : s[i] = x

\* iter().position(|&e| e == x): the first index holding x (0 when none)
Position(s, x) ==
    IF Contains(s, x)
    THEN CHOOSE i \in 1..Len(s) : s[i] = x /\ \A j \in 1..(i - 1) : s[j] # x
    ELSE 0

\* Vec::remove(pos)
RemoveAt(s, pos) == SubSeq(s, 1, pos - 1) \o SubSeq(s, pos + 1, Len(s))

\* word.starts_with('#')
starts_with_hash(word) == Len(word) > 0 /\ word[1] = "#"

\* content.split_whitespace().filter(|w| w.starts_with('#')).collect()
extract_hashtags(content) == SelectSeq(content, starts_with_hash)

\* graph.get(a).and_then(|m| m.get(b)).copied().unwrap_or(0)
Lookup2(m, a, b) ==
    IF a \in DOMAIN m /\ b \in DOMAIN m[a] THEN m[a][b] ELSE 0

\* Faulty variant: the entry is set to the weight instead of growing by it
update_interaction_graph_overwriting(graph, from_user, to_user, weight) ==
    LET user_interactions ==
            IF from_user \in DOMAIN graph THEN graph[from_user] ELSE EmptyMap
    IN  Put(graph, from_user, Put(user_interactions, to_user, weight))

\* update_interaction_graph(from_user, to_user, weight), as a new graph
update_interaction_graph(graph, from_user, to_user, weight) ==
    LET user_interactions ==
            IF from_user \in DOMAIN graph THEN graph[from_user] ELSE EmptyMap
        old == IF to_user \in DOMAIN user_interactions
               THEN user_interactions[to_user] ELSE 0
    IN  Put(graph, from_user, Put(user_interactions, to_user, old + weight))

\* Faulty variant: a hashtag's score is set to the weight instead of growing by it
update_content_affinity_overwriting(affinity, user, hashtags, weight) ==
    LET start == IF user \in DOMAIN affinity THEN affinity[user] ELSE EmptyMap
        F[i \in 0..Len(hashtags)] ==
            IF i = 0 THEN start ELSE Put(F[i - 1], hashtags[i], weight)
    IN  Put(affinity, user, F[Len(hashtags)])

\* update_content_affinity(user, hashtags, weight), as a new affinity map
update_content_affinity(affinity, user, hashtags, weight) ==
    LET start == IF user \in DOMAIN affinity THEN affinity[user] ELSE EmptyMap
        F[i \in 0..Len(hashtags)] ==
            IF i = 0 THEN start
            ELSE LET prev == F[i - 1]
                     h == hashtags[i]
                     old == IF h \in DOMAIN prev THEN prev[h] ELSE 0
                 IN  Put(prev, h, old + weight)
    IN  Put(affinity, user, F[Len(hashtags)])

\* Faulty variant: a hashtag repeated in one call is counted once
update_trending_topics_once_per_call(topics, hashtags, current_time) ==
    LET F[i \in 0..Len(hashtags)] ==
            IF i = 0 THEN topics
            ELSE LET prev == F[i - 1]
                     h == hashtags[i]
                     topic == IF h \in DOMAIN prev THEN prev[h]
                              ELSE [hashtag |-> h, count |-> 0,
                                    last_used |-> current_time]
                     seen == \E j \in 1..(i - 1) : hashtags[j] = h
                 IN  IF seen THEN prev
                     ELSE Put(prev, h, [topic EXCEPT !.count = @ + 1,
                                                     !.last_used = current_time])
    IN  F[Len(hashtags)]

\* Faulty variant: last_used is set when the entry is created and then kept
update_trending_topics_keeping_first_use(topics, hashtags, current_time) ==
    LET F[i \in 0..Len(hashtags)] ==
            IF i = 0 THEN topics
            ELSE LET prev == F[i - 1]
                     h == hashtags[i]
                     topic == IF h \in DOMAIN prev THEN prev[h]
                              ELSE [hashtag |-> h, count |-> 0,
                                    last_used |-> current_time]
                 IN  Put(prev, h, [topic EXCEPT !.count = @ + 1])
    IN  F[Len(hashtags)]

\* update_trending_topics(hashtags) at time current_time, as a new topic map
update_trending_topics(topics, hashtags, current_time) ==
    LET F[i \in 0..Len(hashtags)] ==
            IF i = 0 THEN topics
            ELSE LET prev == F[i - 1]
                     h == hashtags[i]
                     topic == IF h \in DOMAIN prev THEN prev[h]
                              ELSE [hashtag |-> h, count |-> 0,
                                    last_used |-> current_time]
                 IN  Put(prev, h, [topic EXCEPT !.count = @ + 1,
                                                !.last_used = current_time])
    IN  F[Len(hashtags)]

Original == [kind |-> "Original", original_post_id |-> 0,
             original_author |-> NoPrincipal]

Reshare(post_id, author) == [kind |-> "Reshare", original_post_id |-> post_id,
                             original_author |-> author]

\* The Post create_post_internal builds
NewPost(post_id, author, content, post_type) ==
    [ id |-> post_id, author |-> author, content |-> content,
      created_at |-> clock, likes |-> << >>, comments |-> << >>,
      hashtags |-> extract_hashtags(content), post_type |-> post_type,
      reshare_count |-> 0 ]

\* Faulty variant: the notification goes to the acting user
NewNotification_for_actor(recipient, notification_type) ==
    [ id |-> NOTIFICATION_COUNTER + 1, recipient |-> notification_type.user_id,
      notification_type |-> notification_type, created_at |-> clock,
      read |-> FALSE ]

\* The Notification every handler builds: next id, unread, stamped now
NewNotification(recipient, notification_type) ==
    [ id |-> NOTIFICATION_COUNTER + 1, recipient |-> recipient,
      notification_type |-> notification_type, created_at |-> clock,
      read |-> FALSE ]

\* get_next_id(&NOTIFICATION_COUNTER) followed by NOTIFICATIONS.insert
Notify(recipient, notification_type) ==
    /\ NOTIFICATION_COUNTER' = NOTIFICATION_COUNTER + 1
    /\ NOTIFICATIONS' = Put(NOTIFICATIONS, NOTIFICATION_COUNTER + 1,
                            NewNotification(recipient, notification_type))

\* History bookkeeping: one more successful call of `kind` by actor on target
Counted(kind, actor, target) ==
    [calls EXCEPT ![<<kind, actor, target>>] = @ + 1]

\* -------------------------------------------------------------------- Init

Init ==
    /\ POSTS = EmptyMap
    /\ COMMENTS = EmptyMap
    /\ PROFILES = EmptyMap
    /\ FOLLOWS = EmptyMap
    /\ NOTIFICATIONS = EmptyMap
    /\ MESSAGES = EmptyMap
    /\ CHAT_THREADS = EmptyMap
    /\ TRENDING_TOPICS = EmptyMap
    /\ TODOS = << >>
    /\ COUNTER = 0
    /\ POST_COUNTER = 0
    /\ COMMENT_COUNTER = 0
    /\ NOTIFICATION_COUNTER = 0
    /\ MESSAGE_COUNTER = 0
    /\ INTERACTION_GRAPH = EmptyMap
    /\ CONTENT_AFFINITY = EmptyMap
    /\ clock = 1
    /\ calls = [k \in {"follow", "like", "comment"} \X Principals \X Principals |-> 0]
    /\ iteration = [posts |-> << >>, profiles |-> << >>, topics |-> << >>]
    /\ reply = NoReply

\* ------------------------------------------------------------------ clock

\* ic_cdk::api::time() is constant within one call and never goes back.
Tick ==
    /\ clock < MaxTime
    /\ clock' = clock + 1
    /\ UNCHANGED << stores, counters, calls, observer >>

\* --------------------------------------------------------------- profiles

\* What create_profile returns: "Ok" for Result::Ok, else the error message
create_profile_returns(caller) ==
    IF caller \in DOMAIN PROFILES THEN "Profile already exists" ELSE "Ok"

create_profile(caller, username, bio, avatar_url) ==
    IF caller \in DOMAIN PROFILES
    THEN UNCHANGED vars
    ELSE /\ PROFILES' = Put(PROFILES, caller,
                [ id |-> caller, username |-> username, bio |-> bio,
                  avatar_url |-> avatar_url, followers_count |-> 0,
                  following_count |-> 0, created_at |-> clock ])
         /\ UNCHANGED << POSTS, COMMENTS, FOLLOWS, NOTIFICATIONS, MESSAGES,
                         CHAT_THREADS, TRENDING_TOPICS, TODOS,
                         INTERACTION_GRAPH, CONTENT_AFFINITY, counters,
                         clock, calls >>

\* ------------------------------------------------------------------ posts

\* Faulty variant: the post takes the counter's value before the increment
inserted_post_numbered_before_increment(author, content, post_type) ==
    Put(POSTS, POST_COUNTER,
        NewPost(POST_COUNTER, author, content, post_type))

\* POSTS after create_post_internal's insert
inserted_post(author, content, post_type) ==
    Put(POSTS, POST_COUNTER + 1,
        NewPost(POST_COUNTER + 1, author, content, post_type))

\* create_post_internal apart from the insert: the id counter, the trending
\* aggregator and the author's affinity
create_post_internal(author, content) ==
    /\ POST_COUNTER' = POST_COUNTER + 1
    /\ TRENDING_TOPICS' = update_trending_topics(TRENDING_TOPICS,
                              extract_hashtags(content), clock)
    /\ CONTENT_AFFINITY' = update_content_affinity(CONTENT_AFFINITY, author,
                              extract_hashtags(content), 1)

create_post(caller, content) ==
    /\ POSTS' = inserted_post(caller, content, Original)
    /\ create_post_internal(caller, content)
    /\ UNCHANGED << COMMENTS, PROFILES, FOLLOWS, NOTIFICATIONS, MESSAGES,
                    CHAT_THREADS, TODOS, INTERACTION_GRAPH, COUNTER,
                    COMMENT_COUNTER, NOTIFICATION_COUNTER, MESSAGE_COUNTER,
                    clock, calls >>

reshare_post_returns(caller, post_id) ==
    IF post_id \notin DOMAIN POSTS THEN "Original post not found" ELSE "Ok"

\* Faulty variant: the original's reshare_count is not incremented
reshare_post_uncounted(caller, post_id) ==
    IF post_id \notin DOMAIN POSTS
    THEN UNCHANGED vars
    ELSE LET original_post == POSTS[post_id]
             reshare_content == <<ResharedWord>> \o original_post.content
             post_type == Reshare(post_id, original_post.author)
         IN  /\ POSTS' = inserted_post(caller, reshare_content, post_type)
             /\ create_post_internal(caller, reshare_content)
             /\ Notify(original_post.author,
                       [kind |-> "Reshare", post_id |-> post_id,
                        user_id |-> caller, ref_id |-> 0])
             /\ UNCHANGED << COMMENTS, PROFILES, FOLLOWS, MESSAGES,
                             CHAT_THREADS, TODOS, INTERACTION_GRAPH, COUNTER,
                             COMMENT_COUNTER, MESSAGE_COUNTER, clock, calls >>

reshare_post(caller, post_id) ==
    IF post_id \notin DOMAIN POSTS
    THEN UNCHANGED vars
    ELSE LET original_post == POSTS[post_id]
             reshare_content == <<ResharedWord>> \o original_post.content
             post_type == Reshare(post_id, original_post.author)
         IN  /\ POSTS' = [inserted_post(caller, reshare_content, post_type)
                            EXCEPT ![post_id].reshare_count = @ + 1]
             /\ create_post_internal(caller, reshare_content)
             /\ Notify(original_post.author,
                       [kind |-> "Reshare", post_id |-> post_id,
                        user_id |-> caller, ref_id |-> 0])
             /\ UNCHANGED << COMMENTS, PROFILES, FOLLOWS, MESSAGES,
                             CHAT_THREADS, TODOS, INTERACTION_GRAPH, COUNTER,
                             COMMENT_COUNTER, MESSAGE_COUNTER, clock, calls >>

\* ------------------------------------------------------------------ likes

like_post_returns(caller, post_id) ==
    IF post_id \in DOMAIN POSTS
    THEN IF ~Contains(POSTS[post_id].likes, caller)
         THEN "Ok" ELSE "Post already liked"
    ELSE "Post not found"

\* Faulty variant: a like also credits the liker with the post's hashtags
like_post_crediting_hashtags(caller, post_id) ==
    IF post_id \in DOMAIN POSTS /\ ~Contains(POSTS[post_id].likes, caller)
    THEN /\ POSTS' = [POSTS EXCEPT ![post_id].likes = Append(@, caller)]
         /\ Notify(POSTS[post_id].author,
                   [kind |-> "Like", post_id |-> post_id,
                    user_id |-> caller, ref_id |-> 0])
         /\ INTERACTION_GRAPH' = update_interaction_graph(
                INTERACTION_GRAPH, caller, POSTS[post_id].author, LikeWeight)
         /\ CONTENT_AFFINITY' = update_content_affinity(
                CONTENT_AFFINITY, caller, POSTS[post_id].hashtags, 1)
         /\ calls' = Counted("like", caller, POSTS[post_id].author)
         /\ UNCHANGED << COMMENTS, PROFILES, FOLLOWS, MESSAGES, CHAT_THREADS,
                         TRENDING_TOPICS, TODOS, COUNTER, POST_COUNTER,
                         COMMENT_COUNTER, MESSAGE_COUNTER, clock >>
    ELSE UNCHANGED vars

\* Faulty variant: the notification is emitted before the duplicate check
like_post_notifying_first(caller, post_id) ==
    IF post_id \in DOMAIN POSTS
    THEN /\ Notify(POSTS[post_id].author,
                   [kind |-> "Like", post_id |-> post_id,
                    user_id |-> caller, ref_id |-> 0])
         /\ IF ~Contains(POSTS[post_id].likes, caller)
            THEN /\ POSTS' = [POSTS EXCEPT ![post_id].likes = Append(@, caller)]
                 /\ INTERACTION_GRAPH' = update_interaction_graph(
                        INTERACTION_GRAPH, caller, POSTS[post_id].author,
                        LikeWeight)
                 /\ calls' = Counted("like", caller, POSTS[post_id].author)
            ELSE UNCHANGED << POSTS, INTERACTION_GRAPH, calls >>
         /\ UNCHANGED << COMMENTS, PROFILES, FOLLOWS, MESSAGES,
                         CHAT_THREADS, TRENDING_TOPICS, TODOS,
                         CONTENT_AFFINITY, COUNTER, POST_COUNTER,
                         COMMENT_COUNTER, MESSAGE_COUNTER, clock >>
    ELSE UNCHANGED vars

like_post(caller, post_id) ==
    IF post_id \in DOMAIN POSTS
    THEN IF ~Contains(POSTS[post_id].likes, caller)
         THEN /\ POSTS' = [POSTS EXCEPT ![post_id].likes = Append(@, caller)]
              /\ Notify(POSTS[post_id].author,
                        [kind |-> "Like", post_id |-> post_id,
                         user_id |-> caller, ref_id |-> 0])
              /\ INTERACTION_GRAPH' = update_interaction_graph(
                     INTERACTION_GRAPH, caller, POSTS[post_id].author,
                     LikeWeight)
              /\ calls' = Counted("like", caller, POSTS[post_id].author)
              /\ UNCHANGED << COMMENTS, PROFILES, FOLLOWS, MESSAGES,
                              CHAT_THREADS, TRENDING_TOPICS, TODOS,
                              CONTENT_AFFINITY, COUNTER, POST_COUNTER,
                              COMMENT_COUNTER, MESSAGE_COUNTER, clock >>
         ELSE UNCHANGED vars
    ELSE UNCHANGED vars

unlike_post_returns(caller, post_id) ==
    IF post_id \in DOMAIN POSTS
    THEN IF Position(POSTS[post_id].likes, caller) # 0
         THEN "Ok" ELSE "Post not liked"
    ELSE "Post not found"

unlike_post(caller, post_id) ==
    IF post_id \in DOMAIN POSTS
    THEN LET pos == Position(POSTS[post_id].likes, caller)
         IN  IF pos # 0
             THEN /\ POSTS' = [POSTS EXCEPT
                                 ![post_id].likes = RemoveAt(@, pos)]
                  /\ UNCHANGED << COMMENTS, PROFILES, FOLLOWS, NOTIFICATIONS,
                                  MESSAGES, CHAT_THREADS, TRENDING_TOPICS,
                                  TODOS, INTERACTION_GRAPH, CONTENT_AFFINITY,
                                  counters, clock, calls >>
             ELSE UNCHANGED vars
    ELSE UNCHANGED vars

\* --------------------------------------------------------------- comments

\* Faulty variant: a comment is weighed like a like
add_comment_weighing_as_like(caller, post_id, content) ==
    LET comment_id == COMMENT_COUNTER + 1
        comment == [ id |-> comment_id, post_id |-> post_id,
                     author |-> caller, content |-> content,
                     created_at |-> clock ]
    IN  /\ COMMENT_COUNTER' = comment_id
        /\ COMMENTS' = Put(COMMENTS, comment_id, comment)
        /\ IF post_id \in DOMAIN POSTS
           THEN /\ POSTS' = [POSTS EXCEPT
                               ![post_id].comments = Append(@, comment_id)]
                /\ Notify(POSTS[post_id].author,
                          [kind |-> "Comment", post_id |-> post_id,
                           user_id |-> caller, ref_id |-> comment_id])
                /\ INTERACTION_GRAPH' = update_interaction_graph(
                       INTERACTION_GRAPH, caller, POSTS[post_id].author,
                       LikeWeight)
                /\ calls' = Counted("comment", caller, POSTS[post_id].author)
           ELSE UNCHANGED << POSTS, NOTIFICATIONS, NOTIFICATION_COUNTER,
                             INTERACTION_GRAPH, calls >>
        /\ UNCHANGED << PROFILES, FOLLOWS, MESSAGES, CHAT_THREADS,
                        TRENDING_TOPICS, TODOS, CONTENT_AFFINITY, COUNTER,
                        POST_COUNTER, MESSAGE_COUNTER, clock >>

add_comment(caller, post_id, content) ==
    LET comment_id == COMMENT_COUNTER + 1
        comment == [ id |-> comment_id, post_id |-> post_id,
                     author |-> caller, content |-> content,
                     created_at |-> clock ]
    IN  /\ COMMENT_COUNTER' = comment_id
        /\ COMMENTS' = Put(COMMENTS, comment_id, comment)
        /\ IF post_id \in DOMAIN POSTS
           THEN /\ POSTS' = [POSTS EXCEPT
                               ![post_id].comments = Append(@, comment_id)]
                /\ Notify(POSTS[post_id].author,
                          [kind |-> "Comment", post_id |-> post_id,
                           user_id |-> caller, ref_id |-> comment_id])
                /\ INTERACTION_GRAPH' = update_interaction_graph(
                       INTERACTION_GRAPH, caller, POSTS[post_id].author,
                       CommentWeight)
                /\ calls' = Counted("comment", caller, POSTS[post_id].author)
           ELSE UNCHANGED << POSTS, NOTIFICATIONS, NOTIFICATION_COUNTER,
                             INTERACTION_GRAPH, calls >>
        /\ UNCHANGED << PROFILES, FOLLOWS, MESSAGES, CHAT_THREADS,
                        TRENDING_TOPICS, TODOS, CONTENT_AFFINITY, COUNTER,
                        POST_COUNTER, MESSAGE_COUNTER, clock >>

\* ---------------------------------------------------------------- follows

\* u64::saturating_sub
saturating_sub(n, m) == IF n < m THEN 0 ELSE n - m

\* follow_user's update of the profile counts, where the profiles exist
counts_after_follow(profiles, follower, user_id) ==
    LET p1 == IF follower \in DOMAIN profiles
              THEN [profiles EXCEPT ![follower].following_count = @ + 1]
              ELSE profiles
    IN  IF user_id \in DOMAIN p1
        THEN [p1 EXCEPT ![user_id].followers_count = @ + 1]
        ELSE p1

\* unfollow_user's update of the profile counts, where the profiles exist
counts_after_unfollow(profiles, follower, user_id) ==
    LET p1 == IF follower \in DOMAIN profiles
              THEN [profiles EXCEPT
                      ![follower].following_count = saturating_sub(@, 1)]
              ELSE profiles
    IN  IF user_id \in DOMAIN p1
        THEN [p1 EXCEPT ![user_id].followers_count = saturating_sub(@, 1)]
        ELSE p1

follow_user_returns(caller, user_id) ==
    IF caller = user_id
    THEN "Cannot follow yourself"
    ELSE IF ~Contains(IF caller \in DOMAIN FOLLOWS
                      THEN FOLLOWS[caller] ELSE << >>, user_id)
         THEN "Ok" ELSE "Already following"

\* Faulty variant: the already-following check is left out
follow_user_allowing_repeat(caller, user_id) ==
    IF caller = user_id
    THEN UNCHANGED vars
    ELSE LET following == IF caller \in DOMAIN FOLLOWS
                          THEN FOLLOWS[caller] ELSE << >>
         IN  /\ FOLLOWS' = Put(FOLLOWS, caller, Append(following, user_id))
             /\ PROFILES' = counts_after_follow(PROFILES, caller, user_id)
             /\ Notify(user_id, [kind |-> "Follow", post_id |-> 0,
                                 user_id |-> caller, ref_id |-> 0])
             /\ INTERACTION_GRAPH' = update_interaction_graph(
                    INTERACTION_GRAPH, caller, user_id, FollowWeight)
             /\ calls' = Counted("follow", caller, user_id)
             /\ UNCHANGED << POSTS, COMMENTS, MESSAGES, CHAT_THREADS,
                             TRENDING_TOPICS, TODOS, CONTENT_AFFINITY,
                             COUNTER, POST_COUNTER, COMMENT_COUNTER,
                             MESSAGE_COUNTER, clock >>

follow_user(caller, user_id) ==
    IF caller = user_id
    THEN UNCHANGED vars
    ELSE LET following == IF caller \in DOMAIN FOLLOWS
                          THEN FOLLOWS[caller] ELSE << >>
         IN  IF ~Contains(following, user_id)
             THEN /\ FOLLOWS' = Put(FOLLOWS, caller, Append(following, user_id))
                  /\ PROFILES' = counts_after_follow(PROFILES, caller, user_id)
                  /\ Notify(user_id, [kind |-> "Follow", post_id |-> 0,
                                      user_id |-> caller, ref_id |-> 0])
                  /\ INTERACTION_GRAPH' = update_interaction_graph(
                         INTERACTION_GRAPH, caller, user_id, FollowWeight)
                  /\ calls' = Counted("follow", caller, user_id)
                  /\ UNCHANGED << POSTS, COMMENTS, MESSAGES, CHAT_THREADS,
                                  TRENDING_TOPICS, TODOS, CONTENT_AFFINITY,
                                  COUNTER, POST_COUNTER, COMMENT_COUNTER,
                                  MESSAGE_COUNTER, clock >>
             ELSE \* entry(follower).or_insert_with(Vec::new) has run
                  /\ FOLLOWS' = Put(FOLLOWS, caller, following)
                  /\ UNCHANGED << POSTS, COMMENTS, PROFILES, NOTIFICATIONS,
                                  MESSAGES, CHAT_THREADS, TRENDING_TOPICS,
                                  TODOS, INTERACTION_GRAPH, CONTENT_AFFINITY,
                                  counters, clock, calls >>

unfollow_user_returns(caller, user_id) ==
    IF caller \in DOMAIN FOLLOWS /\ Position(FOLLOWS[caller], user_id) # 0
    THEN "Ok" ELSE "Not following"

\* Faulty variant: unfollowing takes the follow weight back out of the graph
unfollow_user_reverting(caller, user_id) ==
    LET pos == IF caller \in DOMAIN FOLLOWS
               THEN Position(FOLLOWS[caller], user_id) ELSE 0
    IN  IF pos # 0
        THEN /\ FOLLOWS' = [FOLLOWS EXCEPT ![caller] = RemoveAt(@, pos)]
             /\ PROFILES' = counts_after_unfollow(PROFILES, caller, user_id)
             /\ INTERACTION_GRAPH' =
                    [INTERACTION_GRAPH EXCEPT ![caller][user_id] = @ - FollowWeight]
             /\ UNCHANGED << POSTS, COMMENTS, NOTIFICATIONS, MESSAGES,
                             CHAT_THREADS, TRENDING_TOPICS, TODOS,
                             CONTENT_AFFINITY, counters, clock, calls >>
        ELSE UNCHANGED vars

unfollow_user(caller, user_id) ==
    LET pos == IF caller \in DOMAIN FOLLOWS
               THEN Position(FOLLOWS[caller], user_id) ELSE 0
    IN  IF pos # 0
        THEN /\ FOLLOWS' = [FOLLOWS EXCEPT ![caller] = RemoveAt(@, pos)]
             /\ PROFILES' = counts_after_unfollow(PROFILES, caller, user_id)
             /\ UNCHANGED << POSTS, COMMENTS, NOTIFICATIONS, MESSAGES,
                             CHAT_THREADS, TRENDING_TOPICS, TODOS,
                             INTERACTION_GRAPH, CONTENT_AFFINITY, counters,
                             clock, calls >>
        ELSE UNCHANGED vars

\* ------------------------------------------------------ counter and todos

\* The value get_next_id stores in the counter and returns
get_next_id(counter) == counter + 1

increment_counter ==
    /\ COUNTER' = COUNTER + 1
    /\ UNCHANGED << stores, POST_COUNTER, COMMENT_COUNTER,
                    NOTIFICATION_COUNTER, MESSAGE_COUNTER, clock, calls >>

set_counter(value) ==
    /\ COUNTER' = value
    /\ UNCHANGED << stores, POST_COUNTER, COMMENT_COUNTER,
                    NOTIFICATION_COUNTER, MESSAGE_COUNTER, clock, calls >>

\* add_todo takes the todo's id from COUNTER, the counter of the two
\* handlers above
add_todo(text) ==
    LET id == get_next_id(COUNTER)
        todo == [ id |-> id, content |-> text, completed |-> FALSE ]
    IN  /\ COUNTER' = id
        /\ TODOS' = Append(TODOS, todo)
        /\ UNCHANGED << POSTS, COMMENTS, PROFILES, FOLLOWS, NOTIFICATIONS,
                        MESSAGES, CHAT_THREADS, TRENDING_TOPICS,
                        INTERACTION_GRAPH, CONTENT_AFFINITY, POST_COUNTER,
                        COMMENT_COUNTER, NOTIFICATION_COUNTER,
                        MESSAGE_COUNTER, clock, calls >>

\* The position of the first todo with the id, 0 if there is none
find_todo(id) ==
    IF \E i \in DOMAIN TODOS : TODOS[i].id = id
    THEN CHOOSE i \in DOMAIN TODOS :
            /\ TODOS[i].id = id
            /\ \A j \in 1..(i - 1) : TODOS[j].id # id
    ELSE 0

\* toggle_todo flips the first todo that has the id
toggle_todo(id) ==
    /\ TODOS' = IF find_todo(id) # 0
                THEN [TODOS EXCEPT ![find_todo(id)].completed = ~@]
                ELSE TODOS
    /\ UNCHANGED << POSTS, COMMENTS, PROFILES, FOLLOWS, NOTIFICATIONS,
                    MESSAGES, CHAT_THREADS, TRENDING_TOPICS,
                    INTERACTION_GRAPH, CONTENT_AFFINITY, counters, clock,
                    calls >>

\* todos.retain(|todo| todo.id != id)
retain_other_ids(todos, id) ==
    LET F[i \in 0..Len(todos)] ==
            IF i = 0 THEN << >>
            ELSE IF todos[i].id # id THEN Append(F[i - 1], todos[i])
                 ELSE F[i - 1]
    IN  F[Len(todos)]

delete_todo_returns(id) == Len(retain_other_ids(TODOS, id)) < Len(TODOS)

delete_todo(id) ==
    /\ TODOS' = retain_other_ids(TODOS, id)
    /\ UNCHANGED << POSTS, COMMENTS, PROFILES, FOLLOWS, NOTIFICATIONS,
                    MESSAGES, CHAT_THREADS, TRENDING_TOPICS,
                    INTERACTION_GRAPH, CONTENT_AFFINITY, counters, clock,
                    calls >>

\* --------------------------------------------------------------- messages

\* Faulty variant: the sender always comes first in the thread id
thread_id_of_sender_first(from_user, to_user) ==
    <<from_user, "_", to_user>>

\* format!("{}_{}", a, b) of the two principals, smaller first
thread_id_of(from_user, to_user) ==
    IF from_user < to_user
    THEN <<from_user, "_", to_user>>
    ELSE <<to_user, "_", from_user>>

send_message_returns(caller, to_user_id) ==
    IF caller = to_user_id THEN "Cannot send message to yourself" ELSE "Ok"

send_message(caller, to_user_id, content) ==
    IF caller = to_user_id
    THEN UNCHANGED vars
    ELSE LET message_id == MESSAGE_COUNTER + 1
             message == [ id |-> message_id, from |-> caller,
                          to |-> to_user_id, content |-> content,
                          created_at |-> clock, read |-> FALSE ]
             thread_id == thread_id_of(caller, to_user_id)
             thread == IF thread_id \in DOMAIN CHAT_THREADS
                       THEN CHAT_THREADS[thread_id]
                       ELSE [ id |-> thread_id,
                              participants |-> <<caller, to_user_id>>,
                              last_message |-> << >>,
                              updated_at |-> clock ]
         IN  /\ MESSAGE_COUNTER' = message_id
             /\ MESSAGES' = Put(MESSAGES, message_id, message)
             /\ CHAT_THREADS' = Put(CHAT_THREADS, thread_id,
                    [thread EXCEPT !.last_message = <<message>>,
                                   !.updated_at = clock])
             /\ Notify(to_user_id, [kind |-> "Message", post_id |-> 0,
                                    user_id |-> caller, ref_id |-> message_id])
             /\ UNCHANGED << POSTS, COMMENTS, PROFILES, FOLLOWS,
                             TRENDING_TOPICS, TODOS, INTERACTION_GRAPH,
                             CONTENT_AFFINITY, COUNTER, POST_COUNTER,
                             COMMENT_COUNTER, clock, calls >>

\* get_messages(with_user_id) for the caller, as the set of message ids
get_messages(caller, with_user_id) ==
    { id \in DOMAIN MESSAGES :
        \/ MESSAGES[id].from = caller /\ MESSAGES[id].to = with_user_id
        \/ MESSAGES[id].from = with_user_id /\ MESSAGES[id].to = caller }

\* get_chat_threads() for the caller, as the set of thread ids
get_chat_threads(caller) ==
    { t \in DOMAIN CHAT_THREADS :
        Contains(CHAT_THREADS[t].participants, caller) }

\* The count mark_messages_as_read returns
mark_messages_as_read_returns(caller, from_user_id) ==
    Cardinality({ id \in DOMAIN MESSAGES :
                    /\ MESSAGES[id].from = from_user_id
                    /\ MESSAGES[id].to = caller
                    /\ ~MESSAGES[id].read })

mark_messages_as_read(caller, from_user_id) ==
    /\ MESSAGES' = [id \in DOMAIN MESSAGES |->
                      IF /\ MESSAGES[id].from = from_user_id
                         /\ MESSAGES[id].to = caller
                         /\ ~MESSAGES[id].read
                      THEN [MESSAGES[id] EXCEPT !.read = TRUE]
                      ELSE MESSAGES[id]]
    /\ UNCHANGED << POSTS, COMMENTS, PROFILES, FOLLOWS, NOTIFICATIONS,
                    CHAT_THREADS, TRENDING_TOPICS, TODOS, INTERACTION_GRAPH,
                    CONTENT_AFFINITY, counters, clock, calls >>

\* ---------------------------------------------------------- notifications

mark_notification_as_read_returns(caller, notification_id) ==
    IF notification_id \in DOMAIN NOTIFICATIONS
    THEN IF NOTIFICATIONS[notification_id].recipient = caller
         THEN "Ok" ELSE "Not authorized"
    ELSE "Notification not found"

\* Faulty variant: the recipient check is left out
mark_notification_as_read_by_anyone(caller, notification_id) ==
    IF notification_id \in DOMAIN NOTIFICATIONS
    THEN /\ NOTIFICATIONS' =
                [NOTIFICATIONS EXCEPT ![notification_id].read = TRUE]
         /\ UNCHANGED << POSTS, COMMENTS, PROFILES, FOLLOWS, MESSAGES,
                         CHAT_THREADS, TRENDING_TOPICS, TODOS,
                         INTERACTION_GRAPH, CONTENT_AFFINITY, counters,
                         clock, calls >>
    ELSE UNCHANGED vars

mark_notification_as_read(caller, notification_id) ==
    IF notification_id \in DOMAIN NOTIFICATIONS
    THEN IF NOTIFICATIONS[notification_id].recipient = caller
         THEN /\ NOTIFICATIONS' =
                     [NOTIFICATIONS EXCEPT ![notification_id].read = TRUE]
              /\ UNCHANGED << POSTS, COMMENTS, PROFILES, FOLLOWS, MESSAGES,
                              CHAT_THREADS, TRENDING_TOPICS, TODOS,
                              INTERACTION_GRAPH, CONTENT_AFFINITY, counters,
                              clock, calls >>
         ELSE UNCHANGED vars
    ELSE UNCHANGED vars

\* mark_all_notifications_as_read(): always Ok
mark_all_notifications_as_read(caller) ==
    /\ NOTIFICATIONS' =
           [n \in DOMAIN NOTIFICATIONS |->
               IF NOTIFICATIONS[n].recipient = caller
               THEN [NOTIFICATIONS[n] EXCEPT !.read = TRUE]
               ELSE NOTIFICATIONS[n]]
    /\ UNCHANGED << POSTS, COMMENTS, PROFILES, FOLLOWS, MESSAGES,
                    CHAT_THREADS, TRENDING_TOPICS, TODOS, INTERACTION_GRAPH,
                    CONTENT_AFFINITY, counters, clock, calls >>

\* ---------------------------------------------------------------- queries

\* The orders in which iterating a HashMap with key set S may yield the keys
IterationOrders(S) ==
    { o \in [1..Cardinality(S) -> S] :
        \A i, j \in 1..Cardinality(S) : i # j => o[i] # o[j] }

\* map.values() when the map is iterated in the given order of its keys
values(map, order) == [i \in 1..Len(order) |-> map[order[i]]]

Min(a, b) == IF a <= b THEN a ELSE b

\* Vec::truncate(limit)
truncate(s, limit) == SubSeq(s, 1, Min(limit, Len(s)))

\* slice::sort_by(|a, b| key(b).cmp(&key(a))), keys[i] being the key of
\* s[i]: a stable sort, larger keys first, equal keys left in the order they
\* had.  F[i] is the order of the first i indices.
sort_by_desc(s, keys) ==
    LET F[i \in 0..Len(s)] ==
            IF i = 0 THEN << >>
            ELSE LET acc == F[i - 1]
                     ahead == Cardinality({ j \in 1..Len(acc) :
                                              keys[acc[j]] >= keys[i] })
                 IN  SubSeq(acc, 1, ahead) \o <<i>>
                        \o SubSeq(acc, ahead + 1, Len(acc))
        sorted == F[Len(s)]
    IN  [k \in 1..Len(s) |-> s[sorted[k]]]

created_at_of(post) == post.created_at

\* Faulty variant: the comparison is turned round, oldest posts first
get_feed_oldest_first(order, limit) ==
    LET posts_vec == values(POSTS, order)
        keys == [i \in 1..Len(posts_vec) |-> 0 - posts_vec[i].created_at]
    IN  truncate(sort_by_desc(posts_vec, keys), limit)

\* get_feed(limit), POSTS iterated in the given order
get_feed(order, limit) ==
    LET posts_vec == values(POSTS, order)
        keys == [i \in 1..Len(posts_vec) |-> posts_vec[i].created_at]
    IN  truncate(sort_by_desc(posts_vec, keys), limit)

\* FOLLOWS.get(user).cloned().unwrap_or_default()
following_of(user) == IF user \in DOMAIN FOLLOWS THEN FOLLOWS[user] ELSE << >>

\* Faulty variant: the follow bonus is left out of the score
feed_score_without_follow_bonus(caller, post) ==
    LET A[i \in 0..Len(post.hashtags)] ==
            IF i = 0 THEN 0
            ELSE A[i - 1] +
                 (IF post.hashtags[i] \in DOMAIN CONTENT_AFFINITY[caller]
                  THEN CONTENT_AFFINITY[caller][post.hashtags[i]] ELSE 0)
        affinity_part ==
            IF caller \in DOMAIN CONTENT_AFFINITY
            THEN A[Len(post.hashtags)] ELSE 0
    IN  affinity_part + Lookup2(INTERACTION_GRAPH, caller, post.author)

\* The score get_personalized_feed gives a post for the caller
feed_score(caller, post) ==
    LET follow_part ==
            IF caller \in DOMAIN FOLLOWS /\ Contains(FOLLOWS[caller], post.author)
            THEN FollowBonus ELSE 0
        A[i \in 0..Len(post.hashtags)] ==
            IF i = 0 THEN 0
            ELSE A[i - 1] +
                 (IF post.hashtags[i] \in DOMAIN CONTENT_AFFINITY[caller]
                  THEN CONTENT_AFFINITY[caller][post.hashtags[i]] ELSE 0)
        affinity_part ==
            IF caller \in DOMAIN CONTENT_AFFINITY
            THEN A[Len(post.hashtags)] ELSE 0
        graph_part ==
            IF caller \in DOMAIN INTERACTION_GRAPH
               /\ post.author \in DOMAIN INTERACTION_GRAPH[caller]
            THEN INTERACTION_GRAPH[caller][post.author] ELSE 0
    IN  follow_part + affinity_part + graph_part

\* get_personalized_feed(limit) for the caller, POSTS iterated in the given order
get_personalized_feed(order, caller, limit) ==
    LET posts == values(POSTS, order)
        scored_posts == [i \in 1..Len(posts) |->
                            <<posts[i], feed_score(caller, posts[i])>>]
        keys == [i \in 1..Len(scored_posts) |-> scored_posts[i][2]]
        kept == truncate(sort_by_desc(scored_posts, keys), limit)
    IN  [i \in 1..Len(kept) |-> kept[i][1]]

\* Faulty variant: the caller's following list is not filtered by the other user's
get_mutual_connections_unfiltered(caller, user_id) == following_of(caller)

\* get_mutual_connections(user_id) for the caller
get_mutual_connections(caller, user_id) ==
    LET user_following == following_of(user_id)
        kept(user) == Contains(user_following, user)
    IN  SelectSeq(following_of(caller), kept)

\* Faulty variant: only the caller is left out, followed users stay
is_candidate_ignoring_follows(caller, caller_following, profile) ==
    profile.id # caller

\* The test suggest_connections makes before it scores a profile
is_candidate(caller, caller_following, profile) ==
    profile.id # caller /\ ~Contains(caller_following, profile.id)

\* The score suggest_connections gives a profile for the caller
suggest_score(caller, profile) ==
    LET mutual_count == Len(get_mutual_connections(caller, profile.id))
        shared(caller_affinity, profile_affinity) ==
            LET RECURSIVE sum(_)
                sum(hashtags) ==
                    IF hashtags = {} THEN 0
                    ELSE LET hashtag == CHOOSE h \in hashtags : TRUE
                         IN  (IF hashtag \in DOMAIN profile_affinity
                              THEN Min(caller_affinity[hashtag],
                                       profile_affinity[hashtag])
                              ELSE 0) + sum(hashtags \ {hashtag})
            IN  sum(DOMAIN caller_affinity)
        affinity_part ==
            IF caller \in DOMAIN CONTENT_AFFINITY
               /\ profile.id \in DOMAIN CONTENT_AFFINITY
            THEN shared(CONTENT_AFFINITY[caller], CONTENT_AFFINITY[profile.id])
            ELSE 0
    IN  mutual_count * MutualBonus + affinity_part

\* suggest_connections(limit) for the caller, PROFILES iterated in the given order
suggest_connections(order, caller, limit) ==
    LET caller_following == following_of(caller)
        wanted(profile) == is_candidate(caller, caller_following, profile)
        candidates == SelectSeq(values(PROFILES, order), wanted)
        suggestions == [i \in 1..Len(candidates) |->
                           <<candidates[i], suggest_score(caller, candidates[i])>>]
        keys == [i \in 1..Len(suggestions) |-> suggestions[i][2]]
        kept == truncate(sort_by_desc(suggestions, keys), limit)
    IN  [i \in 1..Len(kept) |-> kept[i][1]]

\* get_connection_strength(user_id) for the caller
get_connection_strength(caller, user_id) ==
    Lookup2(INTERACTION_GRAPH, caller, user_id)

\* Faulty variant: the sort_by is left out, iteration order is truncated
get_trending_topics_unsorted(order, limit) ==
    truncate(values(TRENDING_TOPICS, order), limit)

\* get_trending_topics(limit), TRENDING_TOPICS iterated in the given order
get_trending_topics(order, limit) ==
    LET topics_vec == values(TRENDING_TOPICS, order)
        keys == [i \in 1..Len(topics_vec) |-> topics_vec[i].count]
    IN  truncate(sort_by_desc(topics_vec, keys), limit)

Limits == 0..MaxLimit

\* ----------------------------------------------------------- query calls

\* The reply to a query call: the call, how many times in a row it has been
\* made (2 standing for more) and what it returned
Answer(call, result) ==
    [call |-> call,
     times |-> IF reply.call = call THEN 2 ELSE 1,
     result |-> result]

\* A query call borrows the stores and only reads them
get_feed_query(limit) ==
    /\ reply' = Answer(<<"get_feed", NoPrincipal, limit>>,
                       get_feed(iteration.posts, limit))
    /\ UNCHANGED << vars, iteration >>

\* Faulty variant: every call iterates POSTS in an order of its own
get_personalized_feed_query_reordering(caller, limit) ==
    \E order \in IterationOrders(DOMAIN POSTS) :
        /\ reply' = Answer(<<"get_personalized_feed", caller, limit>>,
                           get_personalized_feed(order, caller, limit))
        /\ UNCHANGED << vars, iteration >>

get_personalized_feed_query(caller, limit) ==
    /\ reply' = Answer(<<"get_personalized_feed", caller, limit>>,
                       get_personalized_feed(iteration.posts, caller, limit))
    /\ UNCHANGED << vars, iteration >>

suggest_connections_query(caller, limit) ==
    /\ reply' = Answer(<<"suggest_connections", caller, limit>>,
                       suggest_connections(iteration.profiles, caller, limit))
    /\ UNCHANGED << vars, iteration >>

get_trending_topics_query(limit) ==
    /\ reply' = Answer(<<"get_trending_topics", NoPrincipal, limit>>,
                       get_trending_topics(iteration.topics, limit))
    /\ UNCHANGED << vars, iteration >>

get_connection_strength_query(caller, user_id) ==
    /\ reply' = Answer(<<"get_connection_strength", caller, user_id>>,
                       << get_connection_strength(caller, user_id) >>)
    /\ UNCHANGED << vars, iteration >>

\* A HashMap iterates in an order the program does not choose; the order
\* stays while the map is not modified.  After a call that changed a store
\* the maps may iterate in any order.
Rehash ==
    IF stores' = stores
    THEN UNCHANGED observer
    ELSE /\ iteration' \in
               [posts : IterationOrders(DOMAIN POSTS'),
                profiles : IterationOrders(DOMAIN PROFILES'),
                topics : IterationOrders(DOMAIN TRENDING_TOPICS')]
         /\ reply' = NoReply

\* ------------------------------------------------------------------- Next

PostIds == 1..MaxPosts

\* Room left under the bounds of the model for one more id of each kind
RoomForPost == POST_COUNTER < MaxPosts
RoomForComment == COMMENT_COUNTER < MaxComments
RoomForNotification == NOTIFICATION_COUNTER < MaxNotifications
RoomForMessage == MESSAGE_COUNTER < MaxMessages

\* Calls of the post handlers by the principals P
PostCalls(P) ==
    \/ \E caller \in P, content \in Contents :
          RoomForPost /\ create_post(caller, content)
              /\ UNCHANGED observer
    \/ \E caller \in P, post_id \in PostIds :
          RoomForPost /\ RoomForNotification /\ reshare_post(caller, post_id)
              /\ UNCHANGED observer

\* Calls of the like and comment handlers by the principals P
ReactionCalls(P) ==
    \/ \E caller \in P, post_id \in PostIds :
          RoomForNotification /\ like_post(caller, post_id)
              /\ UNCHANGED observer
    \/ \E caller \in P, post_id \in PostIds :
          unlike_post(caller, post_id)
              /\ UNCHANGED observer
    \/ \E caller \in P, post_id \in PostIds, text \in CommentTexts :
          RoomForComment /\ RoomForNotification
              /\ add_comment(caller, post_id, text)
              /\ UNCHANGED observer

\* Calls of the follow handlers by the principals P, naming the principals T
FollowCalls(P, T) ==
    \/ \E caller \in P, user_id \in T :
          RoomForNotification /\ follow_user(caller, user_id)
              /\ UNCHANGED observer
    \/ \E caller \in P, user_id \in T :
          unfollow_user(caller, user_id)
              /\ UNCHANGED observer

ProfileCalls(P) ==
    \E caller \in P, username \in Usernames :
        create_profile(caller, username, << >>, << >>)
            /\ UNCHANGED observer

MessageCalls(P) ==
    \E caller \in P, user_id \in P, text \in CommentTexts :
        RoomForMessage /\ RoomForNotification
            /\ send_message(caller, user_id, text)
            /\ UNCHANGED observer

\* The signal-accumulating handlers called by three principals within one
\* value of the clock.
Next ==
    PostCalls(ThreePrincipals) \/ ReactionCalls(ThreePrincipals)
        \/ FollowCalls(ThreePrincipals, ThreePrincipals)

Spec == Init /\ [][Next]_vars

\* The same handlers called by two principals while the clock advances.
NextClock ==
    Tick \/ PostCalls(TwoPrincipals) \/ ReactionCalls(TwoPrincipals)
         \/ FollowCalls(TwoPrincipals, TwoPrincipals)

SpecClock == Init /\ [][NextClock]_vars

\* What suggest_connections reads: profiles, follows and the affinity that
\* posting builds, for three principals.
NextSuggest ==
    ProfileCalls(ThreePrincipals) \/ PostCalls(TwoPrincipals)
        \/ FollowCalls(ThreePrincipals, Principals)

SpecSuggest == Init /\ [][NextSuggest]_vars

\* Every handler of the social stores, called by two principals within one
\* value of the clock.
NextAll ==
    \/ PostCalls(TwoPrincipals) \/ ReactionCalls(TwoPrincipals)
    \/ FollowCalls(TwoPrincipals, TwoPrincipals) \/ ProfileCalls(TwoPrincipals)
    \/ MessageCalls(TwoPrincipals)

SpecAll == Init /\ [][NextAll]_vars

\* Posting and resharing by one principal while the clock advances, with
\* room for four posts and three clock values.
TimelineTick ==
    /\ clock < MaxTimelineTime
    /\ clock' = clock + 1
    /\ UNCHANGED << stores, counters, calls, observer >>

TimelinePostIds == 1..MaxTimelinePosts

NextTimeline ==
    \/ TimelineTick
    \/ \E caller \in OnePrincipal, content \in TimelineContents :
          POST_COUNTER < MaxTimelinePosts /\ create_post(caller, content)
              /\ UNCHANGED observer
    \/ \E caller \in OnePrincipal, post_id \in TimelinePostIds :
          POST_COUNTER < MaxTimelinePosts /\ reshare_post(caller, post_id)
              /\ UNCHANGED observer

SpecTimeline == Init /\ [][NextTimeline]_vars

\* Notification ids a caller may name: the stored ones and one that is not
NotificationIds == 1..(MaxNotifications + 1)

\* Calls of the notification handlers by the principals P
NotificationCalls(P) ==
    \/ \E caller \in P, notification_id \in NotificationIds :
          mark_notification_as_read(caller, notification_id)
              /\ UNCHANGED observer
    \/ \E caller \in P :
          mark_all_notifications_as_read(caller)
              /\ UNCHANGED observer

\* Posts by one principal, reactions, follows and messages of two, and the
\* notification handlers called by them and by a third principal.
NextNotifications ==
    \/ PostCalls(OnePrincipal)
    \/ ReactionCalls(TwoPrincipals)
    \/ FollowCalls(TwoPrincipals, TwoPrincipals)
    \/ MessageCalls(TwoPrincipals)
    \/ NotificationCalls(ThreePrincipals)

SpecNotifications == Init /\ [][NextNotifications]_vars

\* Calls of the query handlers by the principals P
QueryCalls(P) ==
    \/ \E limit \in Limits : get_feed_query(limit)
    \/ \E caller \in P, limit \in Limits :
          get_personalized_feed_query(caller, limit)
    \/ \E caller \in P, limit \in Limits :
          suggest_connections_query(caller, limit)
    \/ \E limit \in Limits : get_trending_topics_query(limit)
    \/ \E caller \in P, user_id \in P :
          get_connection_strength_query(caller, user_id)

\* Posts by one principal, profiles and follows of two, each followed by a
\* rehash of the maps, and the query handlers called by the two.
NextQueries ==
    \/ \E caller \in OnePrincipal, content \in Contents :
          RoomForPost /\ create_post(caller, content) /\ Rehash
    \/ \E caller \in TwoPrincipals, username \in Usernames :
          create_profile(caller, username, << >>, << >>) /\ Rehash
    \/ \E caller \in TwoPrincipals, user_id \in TwoPrincipals :
          RoomForNotification /\ follow_user(caller, user_id) /\ Rehash
    \/ QueryCalls(TwoPrincipals)

SpecQueries == Init /\ [][NextQueries]_<< vars, observer >>

\* The message handlers called by three principals, with room for three
\* messages.
NextMessages ==
    \/ \E caller \in ThreePrincipals, to_user_id \in ThreePrincipals,
          text \in CommentTexts :
          MESSAGE_COUNTER < MaxThreadMessages
              /\ send_message(caller, to_user_id, text)
              /\ UNCHANGED observer
    \/ \E caller \in ThreePrincipals, from_user_id \in ThreePrincipals :
          mark_messages_as_read(caller, from_user_id)
              /\ UNCHANGED observer

SpecMessages == Init /\ [][NextMessages]_vars

\* The counter and todo handlers, with room for three todos and counter
\* values up to three.
CounterValues == 0..MaxCounter

TodoIds == 1..MaxCounter

NextTodos ==
    \/ COUNTER < MaxCounter /\ increment_counter /\ UNCHANGED observer
    \/ \E value \in CounterValues : set_counter(value) /\ UNCHANGED observer
    \/ \E text \in TodoTexts :
          COUNTER < MaxCounter /\ Len(TODOS) < MaxTodos /\ add_todo(text)
              /\ UNCHANGED observer
    \/ \E id \in TodoIds : toggle_todo(id) /\ UNCHANGED observer
    \/ \E id \in TodoIds : delete_todo(id) /\ UNCHANGED observer

SpecTodos == Init /\ [][NextTodos]_vars

\* ------------------------------------------------------------------ claims

\* C1: for every ordered pair (A, B), get_connection_strength called by A
\* for B is 5 x the successful follow_user calls of A on B, plus 1 x the
\* successful like_post calls of A on posts of B, plus 2 x the add_comment
\* calls of A on existing posts of B (0 when there were none).
C1_StrengthIsWeightedCallCount ==
    \A a \in Principals, b \in Principals :
        get_connection_strength(a, b) =
            5 * calls[<<"follow", a, b>>] + calls[<<"like", a, b>>]
              + 2 * calls[<<"comment", a, b>>]

\* C1 witness: A has followed B once and liked one post of B: strength 6.
C1_FollowThenLikeGivesSix ==
    \E a \in Principals, b \in Principals :
        /\ a # b
        /\ calls[<<"follow", a, b>>] = 1
        /\ calls[<<"like", a, b>>] = 1
        /\ calls[<<"comment", a, b>>] = 0
        /\ get_connection_strength(a, b) = 6

\* C2: no step of any handler (unfollow_user and unlike_post included)
\* lowers or removes an interaction weight or an affinity weight.
C2_WeightsNeverDecrease ==
    [][ /\ \A a \in DOMAIN INTERACTION_GRAPH :
             \A b \in DOMAIN INTERACTION_GRAPH[a] :
                /\ a \in DOMAIN INTERACTION_GRAPH'
                /\ b \in DOMAIN INTERACTION_GRAPH'[a]
                /\ INTERACTION_GRAPH'[a][b] >= INTERACTION_GRAPH[a][b]
        /\ \A u \in DOMAIN CONTENT_AFFINITY :
             \A h \in DOMAIN CONTENT_AFFINITY[u] :
                /\ u \in DOMAIN CONTENT_AFFINITY'
                /\ h \in DOMAIN CONTENT_AFFINITY'[u]
                /\ CONTENT_AFFINITY'[u][h] >= CONTENT_AFFINITY[u][h]
      ]_vars

\* C2 witness: A followed B and liked a post of B, then unfollowed and
\* unliked; the weight 6 is still there.
C2_WeightKeptAfterUnfollowAndUnlike ==
    \E a \in Principals, b \in Principals, p \in DOMAIN POSTS :
        /\ a # b
        /\ POSTS[p].author = b
        /\ calls[<<"follow", a, b>>] = 1
        /\ calls[<<"like", a, b>>] = 1
        /\ ~Contains(following_of(a), b)
        /\ ~Contains(POSTS[p].likes, a)
        /\ get_connection_strength(a, b) = 6
        /\ Lookup2(CONTENT_AFFINITY, b, HashA) >= 1

\* C3: add_comment is all-or-nothing: on a post id that is not stored it
\* stores no comment, keeps the comment id counter, emits no notification
\* and records no weight; on a stored post it stores the comment, appends
\* its id to the post, emits one notification and records the weight.
C3_AddCommentAllOrNothing ==
    [][ \A caller \in Principals, post_id \in PostIds, text \in CommentTexts :
          add_comment(caller, post_id, text) =>
            IF post_id \in DOMAIN POSTS
            THEN /\ COMMENT_COUNTER' \in DOMAIN COMMENTS'
                 /\ POSTS'[post_id].comments =
                        Append(POSTS[post_id].comments, COMMENT_COUNTER')
                 /\ NOTIFICATION_COUNTER' = NOTIFICATION_COUNTER + 1
                 /\ get_connection_strength(caller, POSTS[post_id].author) + 2
                      = Lookup2(INTERACTION_GRAPH', caller, POSTS[post_id].author)
            ELSE UNCHANGED << COMMENTS, COMMENT_COUNTER, NOTIFICATIONS,
                              NOTIFICATION_COUNTER, INTERACTION_GRAPH >>
      ]_vars

\* C4: a call of like_post, unlike_post, follow_user, unfollow_user,
\* reshare_post or send_message that returns an error leaves every store
\* and every id counter as it was (the callers and targets are those of
\* SpecAll).
C4_ErrorLeavesStateUnchanged ==
    [][ /\ \A caller \in TwoPrincipals, post_id \in PostIds :
            /\ like_post_returns(caller, post_id) # "Ok"
                 /\ like_post(caller, post_id)
                 => UNCHANGED << stores, counters >>
            /\ unlike_post_returns(caller, post_id) # "Ok"
                 /\ unlike_post(caller, post_id)
                 => UNCHANGED << stores, counters >>
            /\ reshare_post_returns(caller, post_id) # "Ok"
                 /\ reshare_post(caller, post_id)
                 => UNCHANGED << stores, counters >>
        /\ \A caller \in TwoPrincipals, user_id \in TwoPrincipals :
            /\ follow_user_returns(caller, user_id) # "Ok"
                 /\ follow_user(caller, user_id)
                 => UNCHANGED << stores, counters >>
            /\ unfollow_user_returns(caller, user_id) # "Ok"
                 /\ unfollow_user(caller, user_id)
                 => UNCHANGED << stores, counters >>
            /\ \A text \in CommentTexts :
                 send_message_returns(caller, user_id) # "Ok"
                   /\ send_message(caller, user_id, text)
                   => UNCHANGED << stores, counters >>
      ]_vars

\* C4 witness: a state holding a liked post and a follow in which each of
\* the seven errors is what a call returns.
C4_EveryErrorReachable ==
    /\ NOTIFICATION_COUNTER = 2
    /\ \E caller \in Principals, other \in Principals :
          /\ follow_user_returns(caller, caller) = "Cannot follow yourself"
          /\ follow_user_returns(caller, other) = "Already following"
          /\ unfollow_user_returns(other, caller) = "Not following"
          /\ send_message_returns(caller, caller)
               = "Cannot send message to yourself"
    /\ \E caller \in Principals, other \in Principals, post_id \in PostIds,
          missing \in PostIds :
          /\ like_post_returns(caller, post_id) = "Post already liked"
          /\ unlike_post_returns(other, post_id) = "Post not liked"
          /\ like_post_returns(caller, missing) = "Post not found"
          /\ reshare_post_returns(caller, missing) = "Original post not found"

\* ------------------------------------------------- vocabulary of the claims

Range(s) == { s[i] : i \in DOMAIN s }

\* The sum of f over the finite set S
SetSum(S, f(_)) ==
    LET RECURSIVE sum(_)
        sum(T) == IF T = {} THEN 0
                  ELSE LET x == CHOOSE y \in T : TRUE
                       IN  f(x) + sum(T \ {x})
    IN  sum(S)

\* How many times hashtag h occurs in a hashtag list
Occurrences(h, hashtags) ==
    Cardinality({ i \in DOMAIN hashtags : hashtags[i] = h })

\* Occurrences of h over the hashtag lists of the stored posts in ids
OccurrencesIn(h, ids) ==
    LET one(id) == Occurrences(h, POSTS[id].hashtags) IN SetSum(ids, one)

PostsBy(u) == { id \in DOMAIN POSTS : POSTS[id].author = u }

\* Every hashtag some store knows
KnownHashtags ==
    {HashA, HashB} \cup DOMAIN TRENDING_TOPICS
        \cup UNION { Range(POSTS[id].hashtags) : id \in DOMAIN POSTS }
        \cup UNION { DOMAIN CONTENT_AFFINITY[u] : u \in DOMAIN CONTENT_AFFINITY }

NonIncreasing(s, key(_)) ==
    \A i, j \in DOMAIN s : i < j => key(s[i]) >= key(s[j])

\* A viewer with no recorded signals
NoSignals(viewer) ==
    /\ following_of(viewer) = << >>
    /\ viewer \notin DOMAIN CONTENT_AFFINITY
    /\ viewer \notin DOMAIN INTERACTION_GRAPH

\* The score the feed contract gives a post for a viewer
ContractFeedScore(viewer, post) ==
    LET affinity(i) == Lookup2(CONTENT_AFFINITY, viewer, post.hashtags[i])
    IN  (IF post.author \in Range(following_of(viewer)) THEN 10 ELSE 0)
          + SetSum(DOMAIN post.hashtags, affinity)
          + Lookup2(INTERACTION_GRAPH, viewer, post.author)

\* The candidates and the score the suggestion contract gives
ContractCandidates(caller) ==
    { u \in DOMAIN PROFILES :
        u # caller /\ u \notin Range(following_of(caller)) }

ContractSuggestScore(caller, candidate) ==
    LET common == IF caller \in DOMAIN CONTENT_AFFINITY
                     /\ candidate \in DOMAIN CONTENT_AFFINITY
                  THEN DOMAIN CONTENT_AFFINITY[caller]
                         \cap DOMAIN CONTENT_AFFINITY[candidate]
                  ELSE {}
        least(h) == Min(CONTENT_AFFINITY[caller][h],
                        CONTENT_AFFINITY[candidate][h])
    IN  10 * Cardinality(Range(following_of(caller))
                           \cap Range(following_of(candidate)))
          + SetSum(common, least)

\* C5: for a viewer with no recorded signals get_personalized_feed(limit)
\* and get_feed(limit) return the same sequence, ordered by created_at
\* descending.
C5_NoSignalFeedIsChronological ==
    \A order \in IterationOrders(DOMAIN POSTS) :
        \A viewer \in Principals, limit \in Limits :
            NoSignals(viewer) =>
                /\ get_personalized_feed(order, viewer, limit)
                     = get_feed(order, limit)
                /\ NonIncreasing(get_personalized_feed(order, viewer, limit),
                                 created_at_of)

\* C6: suggest_connections never returns the caller's own profile nor the
\* profile of a user in the caller's following list.
C6_SuggestionsExcludeCallerAndFollowed ==
    \A order \in IterationOrders(DOMAIN PROFILES) :
        \A caller \in Principals, limit \in Limits :
            \A profile \in Range(suggest_connections(order, caller, limit)) :
                /\ profile.id # caller
                /\ ~Contains(following_of(caller), profile.id)

\* C6 witness: the caller has a profile and follows a user with a profile,
\* and suggest_connections returns the one remaining profile.
C6_FollowedProfileLeftOut ==
    \E caller \in DOMAIN PROFILES, followed \in DOMAIN PROFILES :
        /\ Contains(following_of(caller), followed)
        /\ \E order \in IterationOrders(DOMAIN PROFILES) :
              Len(suggest_connections(order, caller, MaxLimit)) = 1

\* C7: get_personalized_feed(limit) returns min(limit, number of posts)
\* stored posts in non-increasing order of the contract's score (10 if the
\* viewer follows the author, plus the viewer's affinity for each hashtag of
\* the post, plus the viewer's interaction strength toward the author), and
\* no omitted post scores strictly higher than a returned one.
C7_PersonalizedFeedRankedByScore ==
    \A order \in IterationOrders(DOMAIN POSTS) :
        \A viewer \in Principals, limit \in Limits :
            LET feed == get_personalized_feed(order, viewer, limit)
                score(post) == ContractFeedScore(viewer, post)
                returned == { feed[i].id : i \in DOMAIN feed }
            IN  /\ Len(feed) = Min(limit, Cardinality(DOMAIN POSTS))
                /\ Cardinality(returned) = Len(feed)
                /\ \A i \in DOMAIN feed :
                      feed[i].id \in DOMAIN POSTS /\ POSTS[feed[i].id] = feed[i]
                /\ NonIncreasing(feed, score)
                /\ \A id \in DOMAIN POSTS \ returned : \A i \in DOMAIN feed :
                      score(POSTS[id]) <= score(feed[i])

\* C7 witness: a viewer follows the author of the post that is iterated
\* last, has affinity for a hashtag and the feed puts that post first.
C7_FollowedAuthorRankedFirst ==
    \E viewer \in Principals, order \in IterationOrders(DOMAIN POSTS) :
        /\ Len(order) = 2
        /\ Contains(following_of(viewer), POSTS[order[2]].author)
        /\ ~Contains(following_of(viewer), POSTS[order[1]].author)
        /\ get_connection_strength(viewer, POSTS[order[1]].author) > 0
        /\ Lookup2(CONTENT_AFFINITY, viewer, HashA) > 0
        /\ get_personalized_feed(order, viewer, 1) = <<POSTS[order[2]]>>

\* C8: suggest_connections(limit) returns min(limit, number of candidates)
\* candidate profiles in non-increasing order of the contract's score (10 x
\* the users both follow, plus the sum over the hashtags in both affinity
\* maps of the smaller weight), and no omitted candidate scores strictly
\* higher than a returned one.
C8_SuggestionsRankedByScore ==
    \A order \in IterationOrders(DOMAIN PROFILES) :
        \A caller \in Principals, limit \in Limits :
            LET suggested == suggest_connections(order, caller, limit)
                score(profile) == ContractSuggestScore(caller, profile.id)
                returned == { suggested[i].id : i \in DOMAIN suggested }
            IN  /\ Len(suggested)
                     = Min(limit, Cardinality(ContractCandidates(caller)))
                /\ Cardinality(returned) = Len(suggested)
                /\ returned \subseteq ContractCandidates(caller)
                /\ \A i \in DOMAIN suggested :
                      PROFILES[suggested[i].id] = suggested[i]
                /\ NonIncreasing(suggested, score)
                /\ \A u \in ContractCandidates(caller) \ returned :
                      \A i \in DOMAIN suggested :
                          score(PROFILES[u]) <= score(suggested[i])

\* C8 witness: one candidate shares a followed user with the caller (score
\* 10), another shares a hashtag (score 2), the second is iterated first and
\* the first is suggested first.
C8_MutualOutranksSharedHashtag ==
    \E caller \in Principals, order \in IterationOrders(DOMAIN PROFILES) :
        /\ Len(order) >= 2
        /\ ContractCandidates(caller) = {order[1], order[2]}
        /\ ContractSuggestScore(caller, order[1]) = 2
        /\ ContractSuggestScore(caller, order[2]) = 10
        /\ suggest_connections(order, caller, 1) = <<PROFILES[order[2]]>>

\* C9: a trending entry exists for a hashtag iff some stored post lists it,
\* and its count is the number of occurrences of the hashtag over the
\* hashtag lists of all stored posts, repeats inside one post included.
C9_TrendingCountsOccurrences ==
    \A h \in KnownHashtags :
        /\ h \in DOMAIN TRENDING_TOPICS <=> OccurrencesIn(h, DOMAIN POSTS) > 0
        /\ h \in DOMAIN TRENDING_TOPICS =>
              /\ TRENDING_TOPICS[h].hashtag = h
              /\ TRENDING_TOPICS[h].count = OccurrencesIn(h, DOMAIN POSTS)

\* C9 witness: a post that repeats a hashtag has been reshared: count 4.
C9_RepeatedHashtagReshared ==
    \E id \in DOMAIN POSTS, h \in DOMAIN TRENDING_TOPICS :
        /\ POSTS[id].post_type.kind = "Reshare"
        /\ Occurrences(h, POSTS[id].hashtags) = 2
        /\ TRENDING_TOPICS[h].count = 4

\* C10: a user's affinity for a hashtag is the number of occurrences of the
\* hashtag over the hashtag lists of the posts the user authored (originals
\* and reshares, repeats included), and 0 when there is none.
C10_AffinityCountsOwnPosts ==
    \A u \in Principals, h \in KnownHashtags :
        Lookup2(CONTENT_AFFINITY, u, h) = OccurrencesIn(h, PostsBy(u))

\* C10 witness: a user reshared a post that repeats a hashtag, another user
\* liked a post of that user, and the affinities are 2 and 2 for the two
\* authors and 0 for the liker.
C10_ReshareCreditsResharer ==
    \E id \in DOMAIN POSTS, liker \in Principals :
        /\ POSTS[id].post_type.kind = "Reshare"
        /\ POSTS[id].author # POSTS[id].post_type.original_author
        /\ liker \notin {POSTS[id].author, POSTS[id].post_type.original_author}
        /\ Contains(POSTS[id].likes, liker)
        /\ Lookup2(CONTENT_AFFINITY, POSTS[id].author, HashA) = 2
        /\ Lookup2(CONTENT_AFFINITY, POSTS[id].post_type.original_author, HashA) = 2
        /\ Lookup2(CONTENT_AFFINITY, liker, HashA) = 0

\* C11: get_trending_topics(limit) returns min(limit, number of distinct
\* hashtags) stored entries in non-increasing order of count, and no omitted
\* topic has a count strictly greater than a returned one.
C11_TrendingTopByCount ==
    \A order \in IterationOrders(DOMAIN TRENDING_TOPICS) :
        \A limit \in Limits :
            LET top == get_trending_topics(order, limit)
                returned == { top[i].hashtag : i \in DOMAIN top }
            IN  /\ Len(top) = Min(limit, Cardinality(DOMAIN TRENDING_TOPICS))
                /\ Cardinality(returned) = Len(top)
                /\ \A i \in DOMAIN top :
                      /\ top[i].hashtag \in DOMAIN TRENDING_TOPICS
                      /\ TRENDING_TOPICS[top[i].hashtag] = top[i]
                /\ \A i, j \in DOMAIN top :
                      i < j => top[i].count >= top[j].count
                /\ \A h \in DOMAIN TRENDING_TOPICS \ returned :
                      \A i \in DOMAIN top :
                          TRENDING_TOPICS[h].count <= top[i].count

\* C11 witness: one hashtag is used in three posts and another in one, the
\* map iterates the rarer one first, and limit 1 returns exactly the entry
\* with count 3.
C11_ThreeUsesBeatOne ==
    \E often \in DOMAIN TRENDING_TOPICS, rarely \in DOMAIN TRENDING_TOPICS :
        /\ Cardinality({ id \in DOMAIN POSTS :
                            Contains(POSTS[id].hashtags, often) }) = 3
        /\ Cardinality({ id \in DOMAIN POSTS :
                            Contains(POSTS[id].hashtags, rarely) }) = 1
        /\ get_trending_topics(<<rarely, often>>, 1)
              = << [hashtag |-> often, count |-> 3,
                    last_used |-> TRENDING_TOPICS[often].last_used] >>

\* C12: get_feed(limit) returns min(limit, number of posts) stored posts in
\* non-increasing created_at order, and no omitted post has a created_at
\* strictly greater than a returned one.
C12_FeedNewestFirst ==
    \A order \in IterationOrders(DOMAIN POSTS) :
        \A limit \in Limits :
            LET feed == get_feed(order, limit)
                returned == { feed[i].id : i \in DOMAIN feed }
            IN  /\ Len(feed) = Min(limit, Cardinality(DOMAIN POSTS))
                /\ Cardinality(returned) = Len(feed)
                /\ \A i \in DOMAIN feed :
                      feed[i].id \in DOMAIN POSTS /\ POSTS[feed[i].id] = feed[i]
                /\ \A i, j \in DOMAIN feed :
                      i < j => feed[i].created_at >= feed[j].created_at
                /\ \A id \in DOMAIN POSTS \ returned : \A i \in DOMAIN feed :
                      POSTS[id].created_at <= feed[i].created_at

\* C12 witness: three posts created at 1, 2 and 3, iterated oldest first;
\* get_feed(2) returns the posts created at 3 and 2, in that order.
C12_ThreePostsLimitTwo ==
    /\ DOMAIN POSTS = {1, 2, 3}
    /\ \A id \in {1, 2, 3} : POSTS[id].created_at = id
    /\ get_feed(<<1, 2, 3>>, 2) = << POSTS[3], POSTS[2] >>

\* C13: the interaction graph holds no self-loop: no user u has an entry
\* for the pair (u, u).
C13_NoSelfLoop ==
    \A u \in DOMAIN INTERACTION_GRAPH : u \notin DOMAIN INTERACTION_GRAPH[u]

\* C14: like_post, add_comment and follow_user never change the
\* content-affinity index or the trending aggregator; create_post and
\* reshare_post never change the interaction graph; create_post adds no
\* notification (the callers and targets are those of SpecAll).
C14_SideEffectFrame ==
    [][ /\ UNCHANGED << CONTENT_AFFINITY, TRENDING_TOPICS >>
           \/ ~ \E caller \in TwoPrincipals :
                   \/ \E post_id \in PostIds :
                         \/ like_post(caller, post_id)
                         \/ \E text \in CommentTexts :
                               add_comment(caller, post_id, text)
                   \/ \E user_id \in TwoPrincipals :
                         follow_user(caller, user_id)
        /\ UNCHANGED INTERACTION_GRAPH
           \/ ~ \E caller \in TwoPrincipals :
                   \/ \E content \in Contents : create_post(caller, content)
                   \/ \E post_id \in PostIds : reshare_post(caller, post_id)
        /\ UNCHANGED << NOTIFICATIONS, NOTIFICATION_COUNTER >>
           \/ ~ \E caller \in TwoPrincipals, content \in Contents :
                   create_post(caller, content)
      ]_vars

\* C14 witness: a user has followed another and liked that user's hashtagged
\* post: the two notifications are the follow's and the like's, the liker
\* has no affinity and the author no interaction entry.
C14_LikeAndFollowLeaveAffinityAlone ==
    \E liker \in Principals, id \in DOMAIN POSTS :
        /\ POSTS[id].author # liker
        /\ POSTS[id].hashtags # << >>
        /\ Contains(POSTS[id].likes, liker)
        /\ Contains(following_of(liker), POSTS[id].author)
        /\ liker \notin DOMAIN CONTENT_AFFINITY
        /\ POSTS[id].author \notin DOMAIN INTERACTION_GRAPH
        /\ TRENDING_TOPICS[POSTS[id].hashtags[1]].count
              = Lookup2(CONTENT_AFFINITY, POSTS[id].author, POSTS[id].hashtags[1])
        /\ { NOTIFICATIONS[n].notification_type.kind : n \in DOMAIN NOTIFICATIONS }
              = {"Follow", "Like"}

\* This step adds exactly one notification, unread, for the recipient, of
\* the given kind and naming the actor, and alters no other notification.
OneNotificationAdded(recipient, actor, kind) ==
    LET added == DOMAIN NOTIFICATIONS' \ DOMAIN NOTIFICATIONS
    IN  /\ DOMAIN NOTIFICATIONS \subseteq DOMAIN NOTIFICATIONS'
        /\ Cardinality(added) = 1
        /\ \A n \in DOMAIN NOTIFICATIONS : NOTIFICATIONS'[n] = NOTIFICATIONS[n]
        /\ \A n \in added :
              /\ NOTIFICATIONS'[n].id = n
              /\ NOTIFICATIONS'[n].recipient = recipient
              /\ NOTIFICATIONS'[n].read = FALSE
              /\ NOTIFICATIONS'[n].notification_type.kind = kind
              /\ NOTIFICATIONS'[n].notification_type.user_id = actor

\* C15: each successful like_post, add_comment on an existing post,
\* follow_user and reshare_post adds exactly one new notification, unread,
\* for the liked or commented post's author, the followed user or the
\* original post's author, naming the acting user, and adds or alters no
\* other notification (the callers and targets are those of SpecAll).
C15_OneNotificationPerAction ==
    [][ /\ \A caller \in TwoPrincipals, post_id \in PostIds :
            /\ like_post_returns(caller, post_id) = "Ok"
                 /\ like_post(caller, post_id)
                 => OneNotificationAdded(POSTS[post_id].author, caller, "Like")
            /\ reshare_post_returns(caller, post_id) = "Ok"
                 /\ reshare_post(caller, post_id)
                 => OneNotificationAdded(POSTS[post_id].author, caller,
                                         "Reshare")
            /\ \A text \in CommentTexts :
                 post_id \in DOMAIN POSTS
                   /\ add_comment(caller, post_id, text)
                   => OneNotificationAdded(POSTS[post_id].author, caller,
                                           "Comment")
        /\ \A caller \in TwoPrincipals, user_id \in TwoPrincipals :
            follow_user_returns(caller, user_id) = "Ok"
              /\ follow_user(caller, user_id)
              => OneNotificationAdded(user_id, caller, "Follow")
      ]_vars

\* C15 witness: a user commented on and reshared another user's post; the
\* author holds two unread notifications, a Comment and a Reshare, both
\* naming that user.
C15_CommentAndReshareNotifyAuthor ==
    \E id \in DOMAIN POSTS, actor \in Principals :
        /\ actor # POSTS[id].author
        /\ POSTS[id].comments # << >>
        /\ POSTS[id].reshare_count = 1
        /\ DOMAIN NOTIFICATIONS = {1, 2}
        /\ { NOTIFICATIONS[n].notification_type.kind : n \in {1, 2} }
              = {"Comment", "Reshare"}
        /\ \A n \in {1, 2} :
              /\ NOTIFICATIONS[n].recipient = POSTS[id].author
              /\ NOTIFICATIONS[n].notification_type.user_id = actor
              /\ NOTIFICATIONS[n].read = FALSE

\* The stored posts whose hashtag list contains h
PostsTagged(h) == { id \in DOMAIN POSTS : Contains(POSTS[id].hashtags, h) }

\* C16: with a non-decreasing clock, the last_used of each trending entry
\* is the greatest created_at among the stored posts whose hashtag list
\* contains the hashtag.
C16_LastUsedIsNewestUse ==
    \A h \in DOMAIN TRENDING_TOPICS :
        /\ \E id \in PostsTagged(h) :
              POSTS[id].created_at = TRENDING_TOPICS[h].last_used
        /\ \A id \in PostsTagged(h) :
              POSTS[id].created_at <= TRENDING_TOPICS[h].last_used

\* C16 witness: a hashtag was used at time 1 and again, by a reshare, at
\* time 3, while another hashtag was used at time 2 only.
C16_ReuseMovesLastUsed ==
    \E h \in DOMAIN TRENDING_TOPICS, other \in DOMAIN TRENDING_TOPICS :
        /\ TRENDING_TOPICS[h].last_used = 3
        /\ TRENDING_TOPICS[other].last_used = 2
        /\ \E old \in PostsTagged(h), new \in PostsTagged(h) :
              /\ POSTS[old].created_at = 1
              /\ POSTS[new].created_at = 3
              /\ POSTS[new].post_type.kind = "Reshare"

\* C17: when A, who authored no post, has followed B and then liked one post
\* of B tagged once with a hashtag, A's affinity for that hashtag is 1 and B's
\* is what B's own posts gave it.
C17_LikeCreditsLikerWithHashtag ==
    \A a \in Principals, b \in Principals, id \in DOMAIN POSTS :
        /\ a # b
        /\ PostsBy(a) = {}
        /\ calls[<<"follow", a, b>>] = 1
        /\ calls[<<"like", a, b>>] = 1
        /\ POSTS[id].author = b
        /\ Contains(POSTS[id].likes, a)
        /\ Occurrences(HashB, POSTS[id].hashtags) = 1
        /\ \E f \in DOMAIN NOTIFICATIONS, l \in DOMAIN NOTIFICATIONS :
              /\ f < l
              /\ NOTIFICATIONS[f].notification_type
                    = [kind |-> "Follow", post_id |-> 0, user_id |-> a,
                       ref_id |-> 0]
              /\ NOTIFICATIONS[l].notification_type
                    = [kind |-> "Like", post_id |-> id, user_id |-> a,
                       ref_id |-> 0]
        => /\ Lookup2(CONTENT_AFFINITY, a, HashB) = 1
           /\ Lookup2(CONTENT_AFFINITY, b, HashB)
                 = OccurrencesIn(HashB, PostsBy(b))

\* No element occurs twice in the sequence
NoRepeats(s) == \A i, j \in DOMAIN s : i # j => s[i] # s[j]

\* C19: no post's likes list holds a user twice, no following list holds a
\* user twice or its own owner; like_post by a user already in the likes,
\* follow_user of an already-followed user and follow_user of oneself each
\* return an error.
C19_LikesAndFollowsAreSets ==
    /\ \A id \in DOMAIN POSTS : NoRepeats(POSTS[id].likes)
    /\ \A u \in DOMAIN FOLLOWS :
          NoRepeats(FOLLOWS[u]) /\ ~Contains(FOLLOWS[u], u)
    /\ \A caller \in Principals :
          /\ follow_user_returns(caller, caller) # "Ok"
          /\ \A id \in DOMAIN POSTS :
                Contains(POSTS[id].likes, caller)
                  => like_post_returns(caller, id) # "Ok"
          /\ \A user_id \in Principals :
                Contains(following_of(caller), user_id)
                  => follow_user_returns(caller, user_id) # "Ok"

\* C19 witness: a user followed another, unfollowed and followed again: the
\* following list holds the other once and a further follow_user is an
\* error.
C19_RefollowKeepsOneEntry ==
    \E a \in Principals, b \in Principals :
        /\ calls[<<"follow", a, b>>] = 2
        /\ following_of(a) = <<b>>
        /\ follow_user_returns(a, b) = "Already following"
        /\ follow_user_returns(a, a) = "Cannot follow yourself"

\* C20: a notification's read flag is changed only by a mark call of its
\* recipient and only from unread to read: mark_notification_as_read by
\* another caller returns "Not authorized" and leaves the notifications as
\* they were, mark_all_notifications_as_read changes only the caller's
\* notifications, and no step turns a read notification back to unread.
C20_ReadFlagOnlyByRecipient ==
    [][ /\ \A caller \in ThreePrincipals, n \in DOMAIN NOTIFICATIONS :
            /\ NOTIFICATIONS[n].recipient # caller
                 /\ mark_notification_as_read(caller, n)
                 => /\ mark_notification_as_read_returns(caller, n)
                         = "Not authorized"
                    /\ UNCHANGED NOTIFICATIONS
            /\ NOTIFICATIONS[n].recipient # caller
                 /\ mark_all_notifications_as_read(caller)
                 => /\ n \in DOMAIN NOTIFICATIONS'
                    /\ NOTIFICATIONS'[n] = NOTIFICATIONS[n]
        /\ \A n \in DOMAIN NOTIFICATIONS :
            /\ n \in DOMAIN NOTIFICATIONS'
            /\ NOTIFICATIONS[n].read => NOTIFICATIONS'[n].read
            /\ NOTIFICATIONS'[n].read # NOTIFICATIONS[n].read
                 => \/ mark_notification_as_read(NOTIFICATIONS[n].recipient, n)
                    \/ mark_all_notifications_as_read(
                           NOTIFICATIONS[n].recipient)
      ]_vars

\* C20 witness: two notifications for two recipients, one read and one
\* unread, and the reader of the first is not authorized for the second.
C20_OnlyOwnNotificationRead ==
    \E mine \in DOMAIN NOTIFICATIONS, other \in DOMAIN NOTIFICATIONS :
        /\ NOTIFICATIONS[mine].recipient # NOTIFICATIONS[other].recipient
        /\ NOTIFICATIONS[mine].read
        /\ ~NOTIFICATIONS[other].read
        /\ mark_notification_as_read_returns(
               NOTIFICATIONS[mine].recipient, other) = "Not authorized"

\* What a pure query call does: no store and no counter changes, and a call
\* that repeats the last answered one returns the same sequence.
Pure(call) ==
    /\ UNCHANGED << stores, counters >>
    /\ reply.call = call => reply'.result = reply.result

\* C18: get_trending_topics, get_personalized_feed, get_feed,
\* suggest_connections and get_connection_strength change no store and no
\* counter, and the same call made twice in a row with no store changed in
\* between returns the identical sequence.
C18_QueriesArePure ==
    [][ /\ \A limit \in Limits :
            /\ reply'.call = <<"get_feed", NoPrincipal, limit>>
                 /\ get_feed_query(limit)
                 => Pure(<<"get_feed", NoPrincipal, limit>>)
            /\ reply'.call = <<"get_trending_topics", NoPrincipal, limit>>
                 /\ get_trending_topics_query(limit)
                 => Pure(<<"get_trending_topics", NoPrincipal, limit>>)
            /\ \A caller \in TwoPrincipals :
                 /\ reply'.call = <<"get_personalized_feed", caller, limit>>
                      /\ get_personalized_feed_query(caller, limit)
                      => Pure(<<"get_personalized_feed", caller, limit>>)
                 /\ reply'.call = <<"suggest_connections", caller, limit>>
                      /\ suggest_connections_query(caller, limit)
                      => Pure(<<"suggest_connections", caller, limit>>)
        /\ \A caller \in TwoPrincipals, user_id \in TwoPrincipals :
            reply'.call = <<"get_connection_strength", caller, user_id>>
              /\ get_connection_strength_query(caller, user_id)
              => Pure(<<"get_connection_strength", caller, user_id>>)
      ]_<< vars, observer >>

\* C18 witness: a viewer with no signals has asked for the personalized
\* feed twice in a row while POSTS iterates post 2 before post 1, and holds
\* both posts in that order.
C18_SameFeedTwice ==
    /\ reply.call = <<"get_personalized_feed", 2, 2>>
    /\ reply.times = 2
    /\ NoSignals(2)
    /\ iteration.posts = <<2, 1>>
    /\ reply.result = << POSTS[2], POSTS[1] >>

\* ------------------------------------------------- strength lower bound

\* What a's present follow, likes and listed comments toward b are worth:
\* FollowWeight if b is in a's following list, LikeWeight for every stored
\* post of b whose likes contain a, CommentWeight for every comment of a
\* listed in the comments of a post of b
CurrentSignals(a, b) ==
    (IF Contains(following_of(a), b) THEN FollowWeight ELSE 0)
      + LikeWeight * Cardinality({ id \in PostsBy(b) :
                                     Contains(POSTS[id].likes, a) })
      + CommentWeight * Cardinality({ c \in DOMAIN COMMENTS :
                          /\ COMMENTS[c].author = a
                          /\ \E id \in PostsBy(b) :
                                Contains(POSTS[id].comments, c) })

\* C21: in every reachable state the interaction strength of a toward b is at
\* least 5 if b is in a's following list, plus the number of stored posts of
\* b that a currently likes, plus 2 for every comment of a listed on a post
\* of b; unfollowing, unliking, following again and liking again never bring
\* the strength below that bound.
C21_StrengthAtLeastCurrentSignals ==
    \A a, b \in Principals :
        get_connection_strength(a, b) >= CurrentSignals(a, b)

\* A follow or a like that was undone and made again: the bound is positive
\* and the strength is strictly above it
C21_RepeatedSignalExceedsBound ==
    \E a, b \in Principals :
        /\ CurrentSignals(a, b) > 0
        /\ get_connection_strength(a, b) > CurrentSignals(a, b)

\* --------------------------------------------------------- reshare counts

\* The stored posts that are reshares of the post id
ResharesOf(id) ==
    { r \in DOMAIN POSTS : /\ POSTS[r].post_type.kind = "Reshare"
                           /\ POSTS[r].post_type.original_post_id = id }

\* C22: in every reachable state the reshare_count of each post is the number
\* of stored Reshare posts whose original_post_id is that post's id, and the
\* original_post_id of every Reshare post names a stored post whose author is
\* the Reshare's original_author.
C22_ReshareCountMatchesReshares ==
    \A id \in DOMAIN POSTS :
        /\ POSTS[id].reshare_count = Cardinality(ResharesOf(id))
        /\ POSTS[id].post_type.kind = "Reshare" =>
              LET original == POSTS[id].post_type.original_post_id
              IN  /\ original \in DOMAIN POSTS
                  /\ POSTS[original].author
                        = POSTS[id].post_type.original_author

\* A post reshared by somebody else than its author
C22_ResharedByAnotherUser ==
    \E id \in DOMAIN POSTS : \E r \in ResharesOf(id) :
        /\ POSTS[r].author # POSTS[id].author
        /\ POSTS[id].reshare_count = 1

\* --------------------------------------------------------- profile counts

\* The users whose following list contains u
FollowersOf(u) == { v \in DOMAIN FOLLOWS : Contains(FOLLOWS[v], u) }

\* C23: in every reachable state, for every user that has a profile, the
\* profile's following_count is the length of the user's following list and
\* its followers_count is the number of users whose following list contains
\* the user, whatever the order of create_profile, follow_user and
\* unfollow_user calls.
C23_ProfileCountsMatchFollows ==
    \A u \in DOMAIN PROFILES :
        /\ PROFILES[u].following_count = Len(following_of(u))
        /\ PROFILES[u].followers_count = Cardinality(FollowersOf(u))

\* ------------------------------------------------------------ id counters

\* The keys of a store are 1..counter and every record is kept under its id
KeyedByCounter(store, counter) ==
    /\ DOMAIN store = 1..counter
    /\ \A k \in DOMAIN store : store[k].id = k

\* Every key a step adds to a store is above every key the store had
NewKeysAreLargest(before, after) ==
    \A k \in DOMAIN after \ DOMAIN before : \A j \in DOMAIN before : j < k

\* The three stores that take their ids from get_next_id
IdsFollowCounters ==
    /\ KeyedByCounter(POSTS, POST_COUNTER)
    /\ KeyedByCounter(NOTIFICATIONS, NOTIFICATION_COUNTER)
    /\ KeyedByCounter(MESSAGES, MESSAGE_COUNTER)

\* C24: in every reachable state the keys of the post store are exactly
\* 1..POST_COUNTER and each post's id is its key, so ids are unique, and a
\* post created by a later step has an id above every earlier post's; the
\* same holds for the notifications with NOTIFICATION_COUNTER and for the
\* messages with MESSAGE_COUNTER.
C24_IdsAreCounterValues ==
    [][ /\ IdsFollowCounters
        /\ IdsFollowCounters'
        /\ NewKeysAreLargest(POSTS, POSTS')
        /\ NewKeysAreLargest(NOTIFICATIONS, NOTIFICATIONS')
        /\ NewKeysAreLargest(MESSAGES, MESSAGES') ]_vars

\* Two posts, two notifications and a message are stored
C24_SeveralIdsOfEachKind ==
    /\ POST_COUNTER = 2 /\ DOMAIN POSTS = {1, 2}
    /\ NOTIFICATION_COUNTER = 2 /\ DOMAIN NOTIFICATIONS = {1, 2}
    /\ MESSAGE_COUNTER = 1 /\ DOMAIN MESSAGES = {1}

\* ----------------------------------------------------------- chat threads

\* The largest element of a non-empty set of ids
Highest(S) == CHOOSE x \in S : \A y \in S : y <= x

\* The threads both a and b take part in
SharedThreads(a, b) == get_chat_threads(a) \cap get_chat_threads(b)

\* The messages between a and b have exactly one thread, its participants
\* are a and b alone, and its last_message is their highest-id message
OneThreadWithNewestMessage(a, b) ==
    IF get_messages(a, b) = {}
    THEN SharedThreads(a, b) = {}
    ELSE /\ Cardinality(SharedThreads(a, b)) = 1
         /\ LET thread_id == CHOOSE t \in SharedThreads(a, b) : TRUE
                thread == CHAT_THREADS[thread_id]
                newest == MESSAGES[Highest(get_messages(a, b))]
            IN  /\ thread.id = thread_id
                /\ Len(thread.participants) = 2
                /\ Range(thread.participants) = {a, b}
                /\ Len(thread.last_message) = 1
                /\ thread.last_message[1].id = newest.id
                /\ thread.last_message[1].from = newest.from
                /\ thread.last_message[1].to = newest.to
                /\ thread.last_message[1].content = newest.content

ThreadPerPair ==
    \A a, b \in Principals : a # b => OneThreadWithNewestMessage(a, b)

\* After a step that stored a message, the thread of its two users holds
\* that very message as last_message
LastMessageIsTheOneSent ==
    MESSAGE_COUNTER' # MESSAGE_COUNTER =>
        LET sent == MESSAGES'[MESSAGE_COUNTER']
        IN  /\ \E t \in DOMAIN CHAT_THREADS' :
                  /\ Range(CHAT_THREADS'[t].participants)
                        = {sent.from, sent.to}
                  /\ CHAT_THREADS'[t].last_message = <<sent>>
            /\ sent.id = Highest({ id \in DOMAIN MESSAGES' :
                   {MESSAGES'[id].from, MESSAGES'[id].to}
                       = {sent.from, sent.to} })

\* C25: for any two distinct users, all the messages sent between them in
\* either direction belong to one single chat thread whose participants are
\* exactly those two users, and after every successful send_message the
\* thread's last_message is the message just sent, which is the highest-id
\* stored message between the two.
C25_OneThreadPerPair ==
    [][ ThreadPerPair /\ ThreadPerPair' /\ LastMessageIsTheOneSent ]_vars

\* Two users have written to each other in both directions, the later
\* message is the thread's last_message, and a second thread exists
C25_BothDirectionsInOneThread ==
    \E a, b \in Principals :
        /\ a # b
        /\ \E m, n \in get_messages(a, b) :
              /\ m < n
              /\ MESSAGES[m].from = a /\ MESSAGES[n].from = b
              /\ \A t \in SharedThreads(a, b) :
                    CHAT_THREADS[t].last_message[1].id = n
        /\ Cardinality(DOMAIN CHAT_THREADS) = 2

\* ---------------------------------------------------------------- todo ids

\* C26: no two todos stored at the same time share an id, whatever the order
\* of add_todo, toggle_todo, delete_todo, increment_counter and set_counter
\* calls.
C26_TodoIdsUnique ==
    \A i, j \in DOMAIN TODOS : i # j => TODOS[i].id # TODOS[j].id

====
